---- MODULE Spec2Model ----
(***************************************************************************)
(* Model of xor.py: the input normalizer (_normalize_inputs), the lazy     *)
(* cyclic XOR combiner (xor_iter) with its length policy, and the eager    *)
(* byte-string wrapper (xor).                                              *)
(*                                                                         *)
(* An input is a record [kind, elems]:                                     *)
(*   "seq"   a sized sequence of integers (bytes, list): elems             *)
(*   "iter"  an iterator of unknown length over elems (generator,          *)
(*           itertools.cycle(elems))                                       *)
(*   "count" the endless iterator itertools.count(elems[1])                *)
(*   "int"   the integer elems[1]                                          *)
(*   "str"   the text string whose code points are elems                   *)
(* A limit_length / length value is a record [tag, n]: Python's None,      *)
(* True, False and the integers are kept apart, since the code tests them  *)
(* with `is`.                                                              *)
(***************************************************************************)
EXTENDS Integers, Sequences, FiniteSets, TLC

\* Bounds of the model.
MaxSize == 5       \* total size of the inputs: sum over inputs of 1 + length
MaxTextSize == 4   \* the same, for the inputs of the text specification
MaxN == 3          \* largest explicit limit_length / length
MaxTake == 4       \* elements a consumer takes from an unbounded stream
MaxPairLen == 3    \* length of the two byte strings of the pair specification

Vals == {1, 49, 256}            \* element values: two bytes, one out of range
Chars == {65, 233}              \* code points: "A" and "e with acute"
TextBytes == {49}
PairBytes == {1, 49, 255}
Encodings == {"ascii", "latin-1", "utf-8", "utf-16-le"}

None == [tag |-> "None", n |-> 0]
True == [tag |-> "bool", n |-> 1]
False == [tag |-> "bool", n |-> 0]
IntVal(n) == [tag |-> "int", n |-> n]

VARIABLES
    inputs,          \* *inputs, as passed by the caller
    encoding,        \* the encoding argument of xor_iter
    call,            \* "none" | "xor_iter" | "xor": the entry point called
    length,          \* the length argument of xor
    limit_length,    \* the limit_length argument xor_iter received
    pc,              \* "start" | "iterating" | "exhausted" | "raised" | "returned"
    cycling_inputs,  \* the normalized inputs behind the cycling views
    cursors,         \* per cycling view: the number of elements pulled from it
    limited,         \* the returned iterator is an islice
    remaining,       \* elements the islice may still produce
    yielded,         \* the elements the stream produced so far
    error,           \* the exception raised, "none" if none
    result           \* the bytes xor returned

vars == <<inputs, encoding, call, length, limit_length, pc, cycling_inputs,
          cursors, limited, remaining, yielded, error, result>>

----------------------------------------------------------------------------
\* Mutant of BitXor: | written for ^.
RECURSIVE BitOr(_, _)
BitOr(x, y) ==
    IF x = 0 THEN y
    ELSE IF y = 0 THEN x
    ELSE (IF (x % 2) + (y % 2) > 0 THEN 1 ELSE 0) + (2 * BitOr(x \div 2, y \div 2))

\* Python's int ^ int on non-negative integers.
RECURSIVE BitXor(_, _)
BitXor(x, y) ==
    IF x = 0 THEN y
    ELSE IF y = 0 THEN x
    ELSE (((x % 2) + (y % 2)) % 2) + (2 * BitXor(x \div 2, y \div 2))

\* functools.reduce(lambda x,y: x ^ y, vs) for a non-empty vs, left to right.
RECURSIVE reduce(_)
reduce(vs) ==
    IF Len(vs) = 1 THEN vs[1]
    ELSE BitXor(reduce(SubSeq(vs, 1, Len(vs) - 1)), vs[Len(vs)])

RECURSIVE Concat(_)
Concat(ss) == IF ss = <<>> THEN <<>> ELSE Head(ss) \o Concat(Tail(ss))

\* str.encode(enc) of the string with code points s.
EncodeChar(c, enc) ==
    CASE enc = "ascii" -> <<c>>
      [] enc = "latin-1" -> <<c>>
      [] enc = "utf-8" -> IF c < 128 THEN <<c>>
                          ELSE <<192 + (c \div 64), 128 + (c % 64)>>
      [] enc = "utf-16-le" -> <<c % 256, c \div 256>>

Encodable(c, enc) ==
    CASE enc = "ascii" -> c < 128
      [] enc = "latin-1" -> c < 256
      [] OTHER -> TRUE

Encode(s, enc) ==
    IF \A k \in 1..Len(s) : Encodable(s[k], enc)
    THEN [error |-> "none",
          bytes |-> Concat([k \in 1..Len(s) |-> EncodeChar(s[k], enc)])]
    ELSE [error |-> "UnicodeEncodeError", bytes |-> <<>>]

\* _normalize_inputs(args, encoding)
normalize_inputs(args, enc) ==
    IF \E k \in 1..Len(args) :
          args[k].kind = "str" /\ Encode(args[k].elems, enc).error # "none"
    THEN [error |-> "UnicodeEncodeError", value |-> <<>>]
    ELSE [error |-> "none",
          value |-> [k \in 1..Len(args) |->
              IF args[k].kind = "int"
              THEN [kind |-> "seq", elems |-> args[k].elems]
              ELSE IF args[k].kind = "str"
              THEN [kind |-> "seq", elems |-> Encode(args[k].elems, enc).bytes]
              ELSE args[k]]]

\* isinstance(x, Sized)
Sized(x) == x.kind \in {"seq", "str"}

\* Mutant of max_size: min written for max.
max_size_min(ins) ==
    LET lens == {Len(ins[k].elems) : k \in {j \in 1..Len(ins) : Sized(ins[j])}}
    IN  IF lens = {} THEN None
        ELSE IntVal(CHOOSE m \in lens : \A l \in lens : m <= l)

\* Mutant of max_size: default=0 written for default=None.
max_size_default_zero(ins) ==
    LET lens == {Len(ins[k].elems) : k \in {j \in 1..Len(ins) : Sized(ins[j])}}
    IN  IF lens = {} THEN IntVal(0)
        ELSE IntVal(CHOOSE m \in lens : \A l \in lens : l <= m)

\* max((len(x) for x in inputs if isinstance(x, Sized)), default=None)
max_size(ins) ==
    LET lens == {Len(ins[k].elems) : k \in {j \in 1..Len(ins) : Sized(ins[j])}}
    IN  IF lens = {} THEN None
        ELSE IntVal(CHOOSE m \in lens : \A l \in lens : l <= m)

\* itertools.cycle(x): the cycling view can produce a next element.
CanPull(x) == x.kind = "count" \/ Len(x.elems) > 0

\* next() of the cycling view of x, after j elements were pulled from it.
cycle_next(x, j) ==
    IF x.kind = "count" THEN x.elems[1] + j
    ELSE x.elems[(j % Len(x.elems)) + 1]

\* One call of the stream's lambda: reduce(xor, map(next, cycling_inputs)).
\* map stops at the first view whose next() raises StopIteration.
stream_next(cyc, cur) ==
    LET stops == {k \in 1..Len(cyc) : ~CanPull(cyc[k])}
        m == IF stops = {} THEN Len(cyc)
             ELSE (CHOOSE k \in stops : \A l \in stops : k <= l) - 1
    IN  IF m = 0
        THEN [error |-> "TypeError(reduce)", value |-> 0, cursors |-> cur]
        ELSE [error |-> "none",
              value |-> reduce([k \in 1..m |-> cycle_next(cyc[k], cur[k])]),
              cursors |-> [k \in 1..Len(cyc) |->
                              IF k <= m THEN cur[k] + 1 ELSE cur[k]]]

\* Mutant of length_policy: the unset limit_length raises like True.
length_policy_strict_default(ins, lim) ==
    IF lim = None \/ lim = True
    THEN LET ms == max_size(ins)
         IN  IF ms = None
             THEN [error |-> "TypeError", limited |-> FALSE, n |-> 0]
             ELSE [error |-> "none", limited |-> TRUE, n |-> ms.n]
    ELSE IF lim = False
    THEN [error |-> "none", limited |-> FALSE, n |-> 0]
    ELSE [error |-> "none", limited |-> TRUE, n |-> lim.n]

\* Mutant of length_policy: == written for `is`, so that 1 == True and
\* 0 == False.
length_policy_equal(ins, lim) ==
    IF lim = None \/ (lim.tag \in {"bool", "int"} /\ lim.n = 1)
    THEN LET ms == max_size(ins)
         IN  IF ms = None /\ lim # None
             THEN [error |-> "TypeError", limited |-> FALSE, n |-> 0]
             ELSE IF ms = None
             THEN [error |-> "none", limited |-> FALSE, n |-> 0]
             ELSE [error |-> "none", limited |-> TRUE, n |-> ms.n]
    ELSE IF lim.tag \in {"bool", "int"} /\ lim.n = 0
    THEN [error |-> "none", limited |-> FALSE, n |-> 0]
    ELSE [error |-> "none", limited |-> TRUE, n |-> lim.n]

\* Mutant of length_policy: the `is False` branch left out, so that False
\* reaches islice(stream, False).
length_policy_no_false(ins, lim) ==
    IF lim = None \/ lim = True
    THEN LET ms == max_size(ins)
         IN  IF ms = None /\ lim = True
             THEN [error |-> "TypeError", limited |-> FALSE, n |-> 0]
             ELSE IF ms = None
             THEN [error |-> "none", limited |-> FALSE, n |-> 0]
             ELSE [error |-> "none", limited |-> TRUE, n |-> ms.n]
    ELSE [error |-> "none", limited |-> TRUE, n |-> lim.n]

\* The branch of xor_iter on limit_length: the error raised or the islice bound.
length_policy(ins, lim) ==
    IF lim = None \/ lim = True
    THEN LET ms == max_size(ins)
         IN  IF ms = None /\ lim = True
             THEN [error |-> "TypeError", limited |-> FALSE, n |-> 0]
             ELSE IF ms = None
             THEN [error |-> "none", limited |-> FALSE, n |-> 0]
             ELSE [error |-> "none", limited |-> TRUE, n |-> ms.n]
    ELSE IF lim = False
    THEN [error |-> "none", limited |-> FALSE, n |-> 0]
    ELSE [error |-> "none", limited |-> TRUE, n |-> lim.n]

\* xor_iter(*ins, limit_length=lim, encoding=enc): the call itself, which pulls
\* nothing.  The encoding argument is not handed to _normalize_inputs.
xor_iter(ins, lim, enc) ==
    LET norm == normalize_inputs(ins, "ascii")
        pol == length_policy(ins, lim)
    IN  IF norm.error # "none"
        THEN [error |-> norm.error, cycling_inputs |-> <<>>,
              limited |-> FALSE, n |-> 0]
        ELSE [error |-> pol.error,
              cycling_inputs |-> IF pol.error = "none" THEN norm.value ELSE <<>>,
              limited |-> pol.limited, n |-> pol.n]

\* Mutant of bytes_of: the values are reduced modulo 256 instead of checked.
RECURSIVE bytes_of_wrapping(_, _, _, _)
bytes_of_wrapping(cyc, cur, n, acc) ==
    IF n = 0
    THEN [error |-> "none", value |-> acc, yielded |-> acc, cursors |-> cur]
    ELSE LET s == stream_next(cyc, cur)
         IN  IF s.error # "none"
             THEN [error |-> s.error, value |-> <<>>, yielded |-> acc,
                   cursors |-> cur]
             ELSE bytes_of_wrapping(cyc, s.cursors, n - 1,
                                    Append(acc, s.value % 256))

\* bytes(it) of an islice of n elements: pulls one element at a time and
\* raises ValueError at the first one outside range(0, 256).
RECURSIVE bytes_of(_, _, _, _)
bytes_of(cyc, cur, n, acc) ==
    IF n = 0
    THEN [error |-> "none", value |-> acc, yielded |-> acc, cursors |-> cur]
    ELSE LET s == stream_next(cyc, cur)
         IN  IF s.error # "none"
             THEN [error |-> s.error, value |-> <<>>, yielded |-> acc,
                   cursors |-> cur]
             ELSE IF s.value \notin 0..255
             THEN [error |-> "ValueError", value |-> <<>>,
                   yielded |-> Append(acc, s.value), cursors |-> s.cursors]
             ELSE bytes_of(cyc, s.cursors, n - 1, Append(acc, s.value))

\* list(itertools.islice(it, n)) on the stream: the first n elements, or those
\* before the lambda raises.
RECURSIVE take(_, _, _, _)
take(cyc, cur, n, acc) ==
    IF n = 0
    THEN [error |-> "none", yielded |-> acc, cursors |-> cur]
    ELSE LET s == stream_next(cyc, cur)
         IN  IF s.error # "none"
             THEN [error |-> s.error, yielded |-> acc, cursors |-> cur]
             ELSE take(cyc, s.cursors, n - 1, Append(acc, s.value))

\* limit_length as xor computes it from length.
xor_limit(len) == IF len # None THEN IntVal(len.n) ELSE True

\* xor(*ins, length=len)
xor(ins, len) ==
    LET it == xor_iter(ins, xor_limit(len), "ascii")
    IN  IF it.error # "none"
        THEN [error |-> it.error, value |-> <<>>, yielded |-> <<>>,
              cursors |-> [k \in 1..Len(ins) |-> 0]]
        ELSE bytes_of(it.cycling_inputs, [k \in 1..Len(ins) |-> 0], it.n, <<>>)

----------------------------------------------------------------------------
\* The inputs the specifications draw from.
SeqsOf(S, n) == [1..n -> S]

InputsOfSize(w) ==
    IF w = 0 THEN {}
    ELSE {[kind |-> kd, elems |-> e] : kd \in {"seq", "iter"}, e \in SeqsOf(Vals, w - 1)}
         \cup (IF w = 2
               THEN {[kind |-> kd, elems |-> <<v>>] : kd \in {"int", "count"}, v \in Vals}
               ELSE {})

RECURSIVE InputTuples(_)
InputTuples(w) ==
    {<<>>} \cup UNION {{<<x>> \o t : x \in InputsOfSize(s), t \in InputTuples(w - s)}
                       : s \in 1..w}

TextInputsOfSize(w) ==
    IF w = 0 THEN {}
    ELSE {[kind |-> "str", elems |-> e] : e \in SeqsOf(Chars, w - 1)}
         \cup {[kind |-> "seq", elems |-> e] : e \in SeqsOf(TextBytes, w - 1)}

RECURSIVE TextTuples(_)
TextTuples(w) ==
    {<<>>} \cup UNION {{<<x>> \o t : x \in TextInputsOfSize(s), t \in TextTuples(w - s)}
                       : s \in 1..w}

PairsOfLength(n) ==
    {<<[kind |-> "seq", elems |-> a], [kind |-> "seq", elems |-> b]>> :
        a \in SeqsOf(PairBytes, n), b \in SeqsOf(PairBytes, n)}

Lengths == {None} \cup {IntVal(n) : n \in 0..MaxN}
Limits == {None, True, False} \cup {IntVal(n) : n \in 0..MaxN}

Fresh ==
    /\ call = "none"
    /\ length = None
    /\ limit_length = None
    /\ pc = "start"
    /\ cycling_inputs = <<>>
    /\ cursors = <<>>
    /\ limited = FALSE
    /\ remaining = 0
    /\ yielded = <<>>
    /\ error = "none"
    /\ result = <<>>

Init ==
    /\ inputs \in InputTuples(MaxSize)
    /\ encoding = "ascii"
    /\ Fresh

InitText ==
    /\ inputs \in TextTuples(MaxTextSize)
    /\ encoding \in Encodings
    /\ Fresh

InitPairs ==
    /\ inputs \in UNION {PairsOfLength(n) : n \in 0..MaxPairLen}
    /\ encoding = "ascii"
    /\ Fresh

\* The caller calls xor_iter(*inputs, limit_length=lim, encoding=encoding).
XorIterCall ==
    /\ pc = "start"
    /\ \E lim \in Limits :
         LET it == xor_iter(inputs, lim, encoding)
         IN  /\ call' = "xor_iter"
             /\ limit_length' = lim
             /\ error' = it.error
             /\ pc' = IF it.error = "none" THEN "iterating" ELSE "raised"
             /\ cycling_inputs' = it.cycling_inputs
             /\ cursors' = [k \in 1..Len(it.cycling_inputs) |-> 0]
             /\ limited' = it.limited
             /\ remaining' = it.n
    /\ UNCHANGED <<inputs, encoding, length, yielded, result>>

\* The consumer calls next() on the iterator xor_iter returned.
StreamNext ==
    /\ pc = "iterating"
    /\ limited \/ Len(yielded) < MaxTake
    /\ IF limited /\ remaining = 0
       THEN /\ pc' = "exhausted"
            /\ UNCHANGED <<cursors, remaining, yielded, error>>
       ELSE LET s == stream_next(cycling_inputs, cursors)
            IN  /\ error' = s.error
                /\ pc' = IF s.error = "none" THEN "iterating" ELSE "raised"
                /\ cursors' = s.cursors
                /\ yielded' = IF s.error = "none" THEN Append(yielded, s.value)
                              ELSE yielded
                /\ remaining' = IF limited /\ s.error = "none"
                                THEN remaining - 1 ELSE remaining
    /\ UNCHANGED <<inputs, encoding, call, length, limit_length,
                   cycling_inputs, limited, result>>

\* The caller calls xor(*inputs, length=len).
XorCall ==
    /\ pc = "start"
    /\ \E len \in Lengths :
         LET it == xor_iter(inputs, xor_limit(len), "ascii")
             r == xor(inputs, len)
         IN  /\ call' = "xor"
             /\ length' = len
             /\ limit_length' = xor_limit(len)
             /\ error' = r.error
             /\ pc' = IF r.error = "none" THEN "returned" ELSE "raised"
             /\ cycling_inputs' = it.cycling_inputs
             /\ cursors' = IF it.error = "none" THEN r.cursors ELSE <<>>
             /\ limited' = it.limited
             /\ remaining' = it.n - Len(r.yielded)
             /\ yielded' = r.yielded
             /\ result' = r.value
    /\ UNCHANGED <<inputs, encoding>>

Next == XorIterCall \/ StreamNext \/ XorCall

Spec == Init /\ [][Next]_vars

SpecText == InitText /\ [][Next]_vars

SpecPairs == InitPairs /\ [][Next]_vars

----------------------------------------------------------------------------
\* What the claims are stated with: the inputs' lengths and the cyclic XOR,
\* written from the positions of the original inputs.
HasKnownLength(x) == x.kind \in {"seq", "str"}

SomeKnownLength(ins) == \E k \in 1..Len(ins) : HasKnownLength(ins[k])

RECURSIVE LongestKnown(_)
LongestKnown(ins) ==
    IF ins = <<>> THEN 0
    ELSE LET rest == LongestKnown(Tail(ins))
             l == Len(Head(ins).elems)
         IN  IF HasKnownLength(Head(ins)) /\ l > rest THEN l ELSE rest

NonEmptyInput(x) == x.kind \in {"int", "count"} \/ Len(x.elems) > 0

AllNonEmpty(ins) == Len(ins) >= 1 /\ \A k \in 1..Len(ins) : NonEmptyInput(ins[k])

\* Element i (from 0) of input x, cycled.
ElementAt(x, i) ==
    CASE x.kind = "int" -> x.elems[1]
      [] x.kind = "count" -> x.elems[1] + i
      [] OTHER -> x.elems[(i % Len(x.elems)) + 1]

\* a XOR b on the low k bits, bit by bit.
RECURSIVE XorBits(_, _, _)
XorBits(a, b, k) ==
    IF k = 0 THEN 0
    ELSE (IF (a % 2) = (b % 2) THEN 0 ELSE 1)
         + (2 * XorBits(a \div 2, b \div 2, k - 1))

RECURSIVE CyclicXor(_, _)
CyclicXor(ins, i) ==
    IF Len(ins) = 1 THEN ElementAt(ins[1], i)
    ELSE XorBits(ElementAt(Head(ins), i), CyclicXor(Tail(ins), i), 9)

IsCyclicXor(out, ins) ==
    \A i \in 0..(Len(out) - 1) : out[i + 1] = CyclicXor(ins, i)

IsByte(v) == v >= 0 /\ v <= 255

\* Input x holds byte values only, as far as n elements are taken from it.
ByteInput(x, n) ==
    /\ x.kind \in {"seq", "iter", "count"}
    /\ NonEmptyInput(x)
    /\ \A i \in 0..(n - 1) : IsByte(ElementAt(x, i))

----------------------------------------------------------------------------
\* C1: xor without length, on non-empty byte inputs of which one has a known
\* length, returns max-known-length bytes, byte i being the XOR over the inputs
\* of their element i mod their length.
C1_Case ==
    /\ call = "xor" /\ length = None
    /\ Len(inputs) >= 1
    /\ SomeKnownLength(inputs)
    /\ \A k \in 1..Len(inputs) : ByteInput(inputs[k], LongestKnown(inputs))

C1_XorLongest ==
    C1_Case =>
        /\ pc = "returned"
        /\ Len(result) = LongestKnown(inputs)
        /\ IsCyclicXor(result, inputs)

C1_Witness ==
    /\ C1_Case /\ pc = "returned"
    /\ Len(inputs) = 2
    /\ inputs[1].kind = "seq" /\ Len(inputs[1].elems) = 2
    /\ inputs[2].kind = "count"
    /\ Len(result) = 2 /\ result[1] # result[2]

\* C2: the strict policy with no known length raises TypeError at the call,
\* with nothing produced and nothing pulled; with a known length it never
\* raises it.
C2_Strict == pc # "start" /\ limit_length = True

C2_StrictFailure ==
    C2_Strict =>
        IF SomeKnownLength(inputs)
        THEN error # "TypeError"
        ELSE /\ pc = "raised" /\ error = "TypeError"
             /\ yielded = <<>> /\ result = <<>>
             /\ cycling_inputs = <<>> /\ cursors = <<>>

C2_Witness ==
    /\ C2_Strict /\ call = "xor_iter"
    /\ Len(inputs) = 2 /\ ~SomeKnownLength(inputs)
    /\ pc = "raised" /\ error = "TypeError"

\* C3: with limit_length unset xor_iter never raises the configuration error;
\* with a known length the iterator stops after exactly max_size elements, the
\* count the True policy gives, and without one it is unbounded: from non-empty
\* inputs any number of elements can be taken.
C3_Case == call = "xor_iter" /\ limit_length = None

C4_IterCase ==
    call = "xor_iter" /\ limit_length.tag = "int" /\ AllNonEmpty(inputs)

C4_XorCase == call = "xor" /\ length.tag = "int" /\ AllNonEmpty(inputs)

C4_ExplicitLength ==
    /\ C4_IterCase =>
          /\ pc \in {"iterating", "exhausted"}
          /\ limited
          /\ Len(yielded) + remaining = limit_length.n
          /\ pc = "exhausted" => Len(yielded) = limit_length.n
          /\ IsCyclicXor(yielded, inputs)
    /\ C4_XorCase =>
          /\ limit_length = IntVal(length.n)
          /\ pc = "returned" <=>
                \A i \in 0..(length.n - 1) : IsByte(CyclicXor(inputs, i))
          /\ pc = "returned" =>
                Len(result) = length.n /\ IsCyclicXor(result, inputs)
          /\ pc # "returned" => pc = "raised" /\ error = "ValueError"

C4_Witness ==
    /\ C4_IterCase /\ pc = "exhausted"
    /\ Len(inputs) = 2
    /\ SomeKnownLength(inputs)
    /\ limit_length.n > LongestKnown(inputs)
    /\ Len(inputs[1].elems) = 2 /\ inputs[1].elems[1] # inputs[1].elems[2]
    /\ Len(yielded) = limit_length.n

\* C5: xor raises ValueError, and returns no bytes, exactly when a value the
\* length policy produces lies outside 0..255; xor_iter on the same inputs
\* raises nothing and yields every combined value, those included, in order.
C5_Length == IF limit_length = True THEN None ELSE limit_length

C5_Produced ==
    LET it == xor_iter(inputs, limit_length, encoding)
    IN  take(it.cycling_inputs, [k \in 1..Len(inputs) |-> 0], it.n, <<>>).yielded

C5_XorCase == call = "xor" /\ error # "TypeError"

C5_IterCase ==
    /\ call = "xor_iter" /\ limited
    /\ xor(inputs, C5_Length).error = "ValueError"

C5_RangeOnMaterialize ==
    /\ C5_XorCase =>
          LET produced == C5_Produced
          IN  IF \E i \in 1..Len(produced) : ~IsByte(produced[i])
              THEN pc = "raised" /\ error = "ValueError" /\ result = <<>>
              ELSE error # "ValueError"
    /\ call = "xor_iter" => error # "ValueError"
    /\ C5_IterCase =>
          LET produced == C5_Produced
          IN  /\ error = "none"
              /\ yielded = SubSeq(produced, 1, Len(yielded))
              /\ AllNonEmpty(inputs) => IsCyclicXor(yielded, inputs)
              /\ pc = "exhausted" =>
                    /\ yielded = produced
                    /\ \E i \in 1..Len(yielded) : ~IsByte(yielded[i])

C5_Witness ==
    /\ C5_XorCase /\ pc = "raised" /\ error = "ValueError"
    /\ Len(inputs) = 2
    /\ Len(yielded) = 2 /\ IsByte(yielded[1]) /\ ~IsByte(yielded[2])

\* C6: an integer input v gives the same outcome as the one-element sequence
\* [v], for every other input and every termination policy, from xor_iter and
\* from xor.
C6_AsSequences(ins) ==
    [k \in 1..Len(ins) |->
        IF ins[k].kind = "int" THEN [kind |-> "seq", elems |-> ins[k].elems]
        ELSE ins[k]]

C6_Outcome(ins, lim) ==
    LET it == xor_iter(ins, lim, encoding)
        n == IF it.limited THEN it.n ELSE MaxTake
    IN  [error |-> it.error, limited |-> it.limited, n |-> it.n,
         elements |-> take(it.cycling_inputs, [k \in 1..Len(ins) |-> 0], n, <<>>)]

C6_IntegerIsSingleton ==
    /\ call = "xor_iter" =>
          C6_Outcome(inputs, limit_length)
              = C6_Outcome(C6_AsSequences(inputs), limit_length)
    /\ call = "xor" =>
          LET r == xor(C6_AsSequences(inputs), length)
          IN  r.error = error /\ (error = "none" => r.value = result)

\* C7: xor_iter combines, for a string input, the bytes of the string encoded
\* with the encoding the caller passed.
C7_Encodable ==
    \A k \in 1..Len(inputs) :
        inputs[k].kind = "str" => Encode(inputs[k].elems, encoding).error = "none"

C7_EncodingUsed ==
    (call = "xor_iter" /\ C7_Encodable) =>
        /\ error # "UnicodeEncodeError"
        /\ error = "none" =>
              \A k \in 1..Len(inputs) :
                  inputs[k].kind = "str" =>
                      cycling_inputs[k].elems
                          = Encode(inputs[k].elems, encoding).bytes

\* C8: for byte strings a and b of equal length, xor(xor(a, b), b) = a.
C8_Case ==
    /\ call = "xor" /\ length = None
    /\ Len(inputs) = 2
    /\ \A k \in 1..2 :
          /\ inputs[k].kind = "seq"
          /\ \A i \in 1..Len(inputs[k].elems) : IsByte(inputs[k].elems[i])
    /\ Len(inputs[1].elems) = Len(inputs[2].elems)

C8_Involution ==
    C8_Case =>
        /\ pc = "returned"
        /\ LET again == xor(<<[kind |-> "seq", elems |-> result], inputs[2]>>, None)
           IN  again.error = "none" /\ again.value = inputs[1].elems

C8_Witness ==
    /\ C8_Case /\ pc = "returned"
    /\ Len(result) = MaxPairLen
    /\ result # inputs[1].elems
    /\ \A i \in 1..Len(result) : result[i] # 0
    /\ inputs[2].elems[1] # inputs[2].elems[2]

\* C9: with limit_length=False the stream over non-empty inputs never signals
\* exhaustion and never raises: any number of elements can be taken, element i
\* being the cyclic XOR of the inputs at position i.
C9_Case == call = "xor_iter" /\ limit_length = False /\ AllNonEmpty(inputs)

C9_NeverStops ==
    C9_Case =>
        /\ pc = "iterating" /\ error = "none"
        /\ ~limited
        /\ IsCyclicXor(yielded, inputs)

C9_Witness ==
    /\ C9_Case
    /\ Len(inputs) = 2
    /\ \A k \in 1..2 : HasKnownLength(inputs[k])
    /\ Len(inputs[1].elems) = 2 /\ inputs[1].elems[1] # inputs[1].elems[2]
    /\ Len(yielded) = MaxTake

\* C10: every output element is the XOR of one element from every input,
\* empty inputs included: each step advances every input's cycling view.
C10_EveryInputPulled ==
    (call = "xor_iter" /\ pc \in {"iterating", "exhausted"}) =>
        \A k \in 1..Len(inputs) : cursors[k] = Len(yielded)

====
